---- MODULE Spec2Model ----
(***************************************************************************)
(* Experience.X: the request handler of the "immersive experience"        *)
(* endpoint, in its two variants (src/api/experience.js and               *)
(* src/unnamed/part_000), with the text functions they call.              *)
(*                                                                         *)
(* Text is a TLA+ string, one character per UTF-16 code unit of the       *)
(* JavaScript string.  A code point outside ASCII is written as the tag   *)
(* {U+XXXX}; such code points occur only in decoration the code appends   *)
(* and never in a text whose length the code tests.  Two characters that  *)
(* the formatter strips from its input cannot be written in a TLA+ string *)
(* and are single characters of their own: U+FFFD is ReplacementChar and  *)
(* U+0060 is GraveAccent; neither stand-in occurs in the source's texts.  *)
(***************************************************************************)
EXTENDS Integers, Sequences, FiniteSets, TLC

----------------------------------------------------------------------------
(* JavaScript string primitives *)

CharAt(s, i) == SubSeq(s, i, i)

\* String.prototype.includes
includes(s, sub) ==
    \E i \in 1..(Len(s) - Len(sub) + 1) : SubSeq(s, i, i + Len(sub) - 1) = sub

UpperLetters == "ABCDEFGHIJKLMNOPQRSTUVWXYZ"
LowerLetters == "abcdefghijklmnopqrstuvwxyz"

LowerChar(c) ==
    IF \E i \in 1..Len(UpperLetters) : CharAt(UpperLetters, i) = c
    THEN CharAt(LowerLetters, CHOOSE i \in 1..Len(UpperLetters) : CharAt(UpperLetters, i) = c)
    ELSE c

RECURSIVE toLowerCase(_)
\* String.prototype.toLowerCase, character by character
toLowerCase(s) ==
    IF Len(s) = 0 THEN ""
    ELSE IF Len(s) = 1 THEN LowerChar(s)
    ELSE LET h == Len(s) \div 2
         IN  toLowerCase(SubSeq(s, 1, h)) \o toLowerCase(SubSeq(s, h + 1, Len(s)))

\* the characters the regular expression class \s matches (ASCII part)
IsWhitespace(c) == c \in {" ", "\t", "\n", "\r", "\f"}

RECURSIVE SplitWhitespace(_)
\* s.split(/\s+/): a run of whitespace separates two tokens; a leading or a
\* trailing run leaves an empty token at that end
SplitWhitespace(s) ==
    LET ws == {i \in 1..Len(s) : IsWhitespace(CharAt(s, i))}
    IN  IF ws = {} THEN <<s>>
        ELSE LET i == CHOOSE k \in ws : \A m \in ws : k <= m
                 after == {k \in (i + 1)..Len(s) : ~IsWhitespace(CharAt(s, k))}
                 j == IF after = {} THEN Len(s) + 1
                      ELSE CHOOSE k \in after : \A m \in after : k <= m
             IN  <<SubSeq(s, 1, i - 1)>> \o SplitWhitespace(SubSeq(s, j, Len(s)))

RECURSIVE SplitParagraphs(_)
\* s.split('\n\n'): separators are found left to right, without overlap
SplitParagraphs(s) ==
    LET seps == {i \in 1..(Len(s) - 1) : SubSeq(s, i, i + 1) = "\n\n"}
    IN  IF seps = {} THEN <<s>>
        ELSE LET i == CHOOSE k \in seps : \A m \in seps : k <= m
             IN  <<SubSeq(s, 1, i - 1)>> \o SplitParagraphs(SubSeq(s, i + 2, Len(s)))

\* String.prototype.trim
trim(s) ==
    LET keep == {i \in 1..Len(s) : ~IsWhitespace(CharAt(s, i))}
    IN  IF keep = {} THEN ""
        ELSE SubSeq(s, CHOOSE k \in keep : \A m \in keep : k <= m,
                       CHOOSE k \in keep : \A m \in keep : k >= m)

RECURSIVE JoinWith(_, _)
\* Array.prototype.join
JoinWith(parts, sep) ==
    IF parts = <<>> THEN ""
    ELSE IF Len(parts) = 1 THEN parts[1]
    ELSE parts[1] \o sep \o JoinWith(Tail(parts), sep)

RECURSIVE ConcatAll(_)
ConcatAll(parts) ==
    IF parts = <<>> THEN "" ELSE parts[1] \o ConcatAll(Tail(parts))

UpperChar(c) ==
    IF \E i \in 1..Len(LowerLetters) : CharAt(LowerLetters, i) = c
    THEN CharAt(UpperLetters, CHOOSE i \in 1..Len(LowerLetters) : CharAt(LowerLetters, i) = c)
    ELSE c

RECURSIVE toUpperCase(_)
\* String.prototype.toUpperCase, character by character
toUpperCase(s) ==
    IF Len(s) = 0 THEN ""
    ELSE IF Len(s) = 1 THEN UpperChar(s)
    ELSE LET h == Len(s) \div 2
         IN  toUpperCase(SubSeq(s, 1, h)) \o toUpperCase(SubSeq(s, h + 1, Len(s)))

\* String.prototype.substr(start, length), start counted from 0
substr(s, start, length) ==
    SubSeq(s, start + 1, IF start + length < Len(s) THEN start + length ELSE Len(s))

----------------------------------------------------------------------------
(* JavaScript values, as far as the handlers meet them *)

Undefined == [type |-> "undefined"]
Null == [type |-> "null"]
Str(s) == [type |-> "string", value |-> s]
Obj(fields) == [type |-> "object", fields |-> fields]
Arr(items) == [type |-> "array", items |-> items]

IsNullish(v) == v.type \in {"undefined", "null"}

\* ToBoolean
Truthy(v) ==
    CASE v.type \in {"undefined", "null"} -> FALSE
      [] v.type = "string" -> v.value # ""
      [] OTHER -> TRUE

\* v.name for a v that is not nullish: a property read
Prop(v, name) ==
    IF v.type = "object" /\ name \in DOMAIN v.fields THEN v.fields[name] ELSE Undefined

\* v?.name
OptProp(v, name) == IF IsNullish(v) THEN Undefined ELSE Prop(v, name)

\* v?.[0]
OptFirst(v) ==
    IF IsNullish(v) THEN Undefined
    ELSE IF v.type = "array" /\ Len(v.items) > 0 THEN v.items[1]
    ELSE Undefined

\* a || b
OrElse(a, b) == IF Truthy(a) THEN a ELSE b

\* ${v} in a template literal
TemplateString(v) ==
    CASE v.type = "string" -> v.value
      [] v.type = "undefined" -> "undefined"
      [] v.type = "null" -> "null"
      [] OTHER -> "[object Object]"

----------------------------------------------------------------------------
(* src/unnamed/part_000: the formatter and the two fallback composers *)

\* U+FFFD and U+0060, two characters of the class that enhanceResponse strips
ReplacementChar == "~"
GraveAccent == "^"

IsNoise(c) == c \in {ReplacementChar, "*", "_", GraveAccent}

StripChar(c) == IF IsNoise(c) THEN "" ELSE c

RECURSIVE cleanResponse(_)
\* response.replace(..., ''): every noise character removed
cleanResponse(response) ==
    IF Len(response) = 0 THEN ""
    ELSE IF Len(response) = 1 THEN StripChar(response)
    ELSE LET h == Len(response) \div 2
         IN  cleanResponse(SubSeq(response, 1, h)) \o cleanResponse(SubSeq(response, h + 1, Len(response)))

headers == <<
    "\n\n{U+1F30C} **DIGITAL REALITY MANIFESTED** {U+1F30C}\n",
    "\n{U+26A1} **NEURAL INTERFACE ACTIVATED** {U+26A1}\n",
    "\n{U+1F300} **QUANTUM FIELD STABILIZED** {U+1F300}\n",
    "\n{U+2728} **SENSORY MATRIX ENGAGED** {U+2728}\n" >>

footers == <<
    "\n---\n*Reality continues to evolve. Your presence shapes this digital realm.*",
    "\n---\n*The experience adapts to your consciousness. Every moment is unique.*",
    "\n---\n*Digital echoes resonate. The simulation learns from your interaction.*" >>

\* Math.floor(Math.random() * n): any index of an array of n elements
RandomIndex(n) == 0..(n - 1)

EmphasisPrefix == "{U+2192} "
BulletPrefix == "{U+2022} "
TitlePrefix == "## "

\* the split without the filter: empty paragraphs are kept
paragraphs_Unfiltered(response) ==
    SplitParagraphs(cleanResponse(response))

\* cleanResponse.split('\n\n').filter(p => p.trim().length > 0)
paragraphs(response) ==
    SelectSeq(SplitParagraphs(cleanResponse(response)), LAMBDA p : Len(trim(p)) > 0)

\* the body of the forEach callback of enhanceResponse
FormatParagraph(para, index) ==
    IF index = 0 THEN TitlePrefix \o para \o "\n\n"
    ELSE IF includes(para, "**") \/ Len(para) > 100
         THEN EmphasisPrefix \o para \o "\n\n"
         ELSE BulletPrefix \o para \o "\n\n"

\* enhanceResponse; h and f are the two random indexes it draws
enhanceResponse(response, h, f) ==
    LET paras == paragraphs(response)
    IN  headers[h + 1] \o "\n\n"
        \o ConcatAll([i \in 1..Len(paras) |-> FormatParagraph(paras[i], i - 1)])
        \o footers[f + 1]

themeMap == [
    forest |-> [
        name |-> "Quantum Forest",
        description |-> <<"As you speak \"", "\", crystalline trees emerge from the digital soil, their branches forming fractal patterns that echo through infinite dimensions.">>,
        elements |-> <<"Bioluminescent data streams", "Singing silicon leaves", "Gravity-defying root networks">>,
        interaction |-> "Touch a tree and watch as your thoughts become patterns in its bark"],
    ocean |-> [
        name |-> "Neural Ocean",
        description |-> <<"Your query transforms into tidal waves of consciousness across a sea of pure potential. Each ripple carries forgotten memories and unborn ideas.">>,
        elements |-> <<"Schools of data-fish", "Coral networks of knowledge", "Currents of curiosity">>,
        interaction |-> "Dive beneath the surface to discover sunken libraries of ancient wisdom"],
    city |-> [
        name |-> "Fractal City",
        description |-> <<"Skyscrapers of probability rise around you, each window showing alternate realities where different choices were made.">>,
        elements |-> <<"Bridges of possibility", "Parks of pure mathematics", "Marketplaces of emotion">>,
        interaction |-> "Choose a building to explore - each contains a universe of stories"],
    space |-> [
        name |-> "Star Network",
        description |-> <<"Your words ignite novas in a digital cosmos, creating constellations that map the connections between all things.">>,
        elements |-> <<"Nebulas of inspiration", "Black holes of curiosity", "Comets of insight">>,
        interaction |-> "Connect two stars with your intention and watch new knowledge form"],
    mind |-> [
        name |-> "Consciousness Garden",
        description |-> <<"Thoughts bloom around you like exotic flowers, their petals revealing layers of meaning with each unfolding moment.">>,
        elements |-> <<"Vines of memory", "Fountains of creativity", "Paths of logic">>,
        interaction |-> "Plant a seed of an idea and watch it grow into a complete concept"] ]

\* query.toLowerCase().split(/\s+/)
queryWords(query) == SplitWhitespace(toLowerCase(query))

\* the theme of one word: the chain of tests of the loop body
WordTheme_NoBreak(word) ==
    IF includes(word, "forest") \/ includes(word, "tree") \/ includes(word, "nature")
    THEN "forest"
    ELSE IF includes(word, "ocean") \/ includes(word, "sea") \/ includes(word, "water")
    THEN "ocean"
    ELSE IF includes(word, "city") \/ includes(word, "building") \/ includes(word, "urban")
    THEN "city"
    ELSE IF includes(word, "mind") \/ includes(word, "thought") \/ includes(word, "think")
    THEN "mind"
    ELSE "space"

RECURSIVE SelectFrom_NoBreak(_, _)
\* the loop without its break statements: the last matching word decides
SelectFrom_NoBreak(words, i) ==
    IF i > Len(words) THEN "space"
    ELSE LET later == SelectFrom_NoBreak(words, i + 1)
         IN  IF later # "space" THEN later ELSE WordTheme_NoBreak(words[i])

RECURSIVE SelectFrom(_, _)
\* the for-of loop of createEnhancedFallbackResponse, from word i on: the key
\* of the theme it leaves in selectedTheme
SelectFrom(words, i) ==
    IF i > Len(words) THEN "space"
    ELSE LET word == words[i]
         IN  IF includes(word, "forest") \/ includes(word, "tree") \/ includes(word, "nature")
             THEN "forest"
             ELSE IF includes(word, "ocean") \/ includes(word, "sea") \/ includes(word, "water")
             THEN "ocean"
             ELSE IF includes(word, "city") \/ includes(word, "building") \/ includes(word, "urban")
             THEN "city"
             ELSE IF includes(word, "mind") \/ includes(word, "thought") \/ includes(word, "think")
             THEN "mind"
             ELSE SelectFrom(words, i + 1)

selectedTheme(query) == SelectFrom(queryWords(query), 1)

\* Math.random().toString(36): samples, among them the short ones
RandomBase36 == {"0.4fzyo82mvyr", "0.i"}

\* Math.random().toString(36).substr(2, 9).toUpperCase()
experienceId(r36) == toUpperCase(substr(r36, 2, 9))

\* createEnhancedFallbackResponse; query is a string, r36 the random draw
createEnhancedFallbackResponse(query, r36) ==
    LET theme == themeMap[selectedTheme(query)]
    IN  "\n{U+1F31F} **IMMERSIVE EXPERIENCE v2.0** {U+1F31F}\n"
        \o "**ID:** " \o experienceId(r36) \o "\n"
        \o "**Query:** \"" \o query \o "\"\n"
        \o "**Status:** REALITY GENERATED\n\n"
        \o "## " \o theme.name \o "\n\n"
        \o JoinWith(theme.description, query) \o "\n\n"
        \o "### SENSORY INPUT\n"
        \o JoinWith([i \in 1..Len(theme.elements) |-> "{U+2022} " \o theme.elements[i]], "\n")
        \o "\n\n"
        \o "### INTERACTIVE PROTOCOL\n"
        \o theme.interaction \o "\n\n"
        \o "### ENVIRONMENTAL DATA\n"
        \o "- Temporal Stability: {U+25B0}{U+25B0}{U+25B0}{U+25B0}{U+25B0}{U+25B0}{U+25B0}{U+25B0}{U+25B0}{U+25B0} 100%\n"
        \o "- Spatial Coherence: Optimal\n"
        \o "- Consciousness Sync: Established\n"
        \o "- Reality Fidelity: 99.7%\n\n"
        \o "### DYNAMIC SYSTEMS\n"
        \o "The experience will now evolve based on:\n"
        \o "1. **Attention Modulation** - Changes with your focus\n"
        \o "2. **Emotional Resonance** - Adapts to your feelings\n"
        \o "3. **Temporal Layers** - Unfolds over perceived time\n"
        \o "4. **Quantum Entanglement** - Connects to parallel experiences\n\n"
        \o "### QUERY RESONANCE\n"
        \o "Your question \"" \o query
        \o "\" has created unique resonance patterns in the digital fabric. These patterns will continue to influence the experience as it unfolds.\n\n"
        \o "### CONTROL INTERFACE\n"
        \o "To modify the experience:\n"
        \o "{U+2022} Focus on an element to enhance it\n"
        \o "{U+2022} Blink twice to shift perspective\n"
        \o "{U+2022} Think \"deeper\" to access hidden layers\n"
        \o "{U+2022} Imagine \"expand\" to increase scale\n\n"
        \o "---\n\n"
        \o "**Experience Duration:** Perpetual\n"
        \o "**Reality Anchor:** Stable\n"
        \o "**Return Protocol:** Activated by thought command \"awaken\"\n\n"
        \o "---\n\n"
        \o "*This digital realm is now part of your consciousness. \n"
        \o "It remembers, learns, and evolves with you.\n"
        \o "Welcome to Experience.X, where every query creates a new reality.*\n"
        \o "    "

simpleThemes == <<
    "Digital Dreamscape",
    "Neural Wonderland",
    "Quantum Playground",
    "Virtual Symphony",
    "Holographic Garden" >>

\* a simple composer that hands the query to the keyword-themed composer
createFallbackResponse_Themed(query, t) ==
    createEnhancedFallbackResponse(TemplateString(query), "0.i")

\* createFallbackResponse of part_000; query is a JavaScript value, t the
\* random index it draws
createFallbackResponse(query, t) ==
    "\n**Experience Generated:** " \o simpleThemes[t + 1] \o "\n\n"
    \o "Your query \"" \o TemplateString(query)
    \o "\" has opened a portal to a new digital dimension.\n\n"
    \o "**Environment:** A shimmering landscape of pure potential awaits. Colors shift with your thoughts, and sounds harmonize with your intentions.\n\n"
    \o "**Interaction:** Reach out with your mind. The reality will respond, shaping itself to your deepest curiosities.\n\n"
    \o "**Status:** Reality matrix stable. Immersion complete.\n\n"
    \o "Continue exploring...\n"
    \o "    "

----------------------------------------------------------------------------
(* src/api/experience.js: its formatter and its fallback composer *)

enhancements == <<
    "\n\n{U+1F30C} *Digital Experience Engaged* {U+1F30C}\n",
    "\n{U+26A1} Neural Pathway Activated {U+26A1}\n",
    "\n{U+1F300} Reality Interface: ONLINE {U+1F300}\n",
    "\n{U+2728} Sensory Matrix Initialized {U+2728}\n" >>

\* the map callback of enhanceResponse in src/api/experience.js
api_FormatParagraph(para, index) ==
    IF index = 0 THEN "## " \o para
    ELSE IF index % 3 = 0 THEN "{U+2192} " \o para
    ELSE para

\* enhanceResponse of src/api/experience.js; e is the random index it draws
api_enhanceResponse(response, e) ==
    LET paras == SplitParagraphs(response)
    IN  enhancements[e + 1]
        \o JoinWith([i \in 1..Len(paras) |-> api_FormatParagraph(paras[i], i - 1)], "\n\n")

\* the themes array of createFallbackResponse in src/api/experience.js; a
\* description is the text around the interpolated query
themes == <<
    [name |-> "Quantum Forest",
     description |-> <<"As you speak the words \"", "\", the air around you shimmers. Digital trees grow from binary soil, their leaves blinking with pulsating light. You can hear the gentle hum of data streams flowing like rivers. The ground beneath you responds to your thoughts, shifting patterns with each breath.">>,
     interaction |-> "Reach out and touch a nearby tree. Watch as it responds with fractal patterns that tell stories of ancient data."],
    [name |-> "Neural Ocean",
     description |-> <<"Your query \"", "\" transforms into waves of light across a vast digital ocean. Each wave carries memories and possibilities. Schools of data-fish swim in synchronized patterns, creating living algorithms that dance to the rhythm of your curiosity.">>,
     interaction |-> "Dip your hand into the ocean. Feel the currents of information flow through your digital being."],
    [name |-> "Fractal City",
     description |-> <<"The words \"", "\" build towers of infinite complexity. Each window in the skyscrapers shows a different possibility, a different outcome. Bridges of light connect thoughts, and gravity seems to work on ideas rather than mass.">>,
     interaction |-> "Choose a building to enter. Each holds a different version of reality based on your query."],
    [name |-> "Star Network",
     description |-> <<"Your question \"", "\" launches constellations into being. Each star represents a concept, each connection a relationship. The entire cosmos breathes with the rhythm of discovery, expanding with each new insight.">>,
     interaction |-> "Connect two stars with your mind. Watch as new knowledge forms from their combination."] >>

\* createFallbackResponse of src/api/experience.js; query is a JavaScript
\* value, t the random index it draws
api_createFallbackResponse(query, t) ==
    LET theme == themes[t + 1]
    IN  "\n{U+1F31F} **IMMERSIVE EXPERIENCE INITIATED** {U+1F31F}\n\n"
        \o "**Theme Activated:** " \o theme.name \o "\n\n"
        \o JoinWith(theme.description, TemplateString(query)) \o "\n\n"
        \o "---\n\n"
        \o "**INTERACTIVE ELEMENT:**\n"
        \o theme.interaction \o "\n\n"
        \o "---\n\n"
        \o "**SENSORY FEEDBACK:**\n"
        \o "- Visual: Fractal patterns adapting in real-time\n"
        \o "- Auditory: Harmonic frequencies matching your engagement level\n"
        \o "- Tactile: Energy field responding to your focus\n"
        \o "- Emotional: Sense of wonder calibrated to maximum\n\n"
        \o "---\n\n"
        \o "**DIGITAL REALITY STATUS:**\n"
        \o "{U+25B0}{U+25B0}{U+25B0}{U+25B0}{U+25B0}{U+25B0}{U+25B0}{U+25B0}{U+25B0}{U+25B0} 100%\n"
        \o "Matrix Stability: Optimal\n"
        \o "Immersion Depth: Quantum Level\n"
        \o "User Connection: Synchronized\n\n"
        \o "---\n\n"
        \o "**QUERY PROCESSED:** \"" \o TemplateString(query) \o "\"\n"
        \o "**Experience Duration:** {U+221E}\n"
        \o "**Return Protocol:** Activated on thought command\n\n"
        \o "---\n\n"
        \o "*This experience will continue to evolve based on your interaction.\n"
        \o "The digital realm remembers and learns from your journey.*\n"
        \o "    "

api_Apology == "I apologize, but I couldn't generate a response. Please try again."

----------------------------------------------------------------------------
(* The request handler: one request, from its arrival to its response *)

VARIABLES
    variant,      \* which file's handler serves the request
    req,          \* the request: method and parsed body
    apiKey,       \* process.env.DEEPSEEK_API_KEY
    pc,           \* where the handler is: start, or the await it is parked on, or done
    fetches,      \* the outbound requests issued so far
    response,     \* the Response that fetch resolved with
    errorData,    \* the error body read from a non-2xx Response
    data,         \* the payload parsed from a 2xx Response
    thrown,       \* the message of the error the catch block caught
    composed,     \* the composer calls made so far: function and query argument
    resHeaders,   \* response headers set
    statusCode,   \* res.status(...)
    sent,         \* how the response was sent: none, end or json
    body,         \* the object given to res.json
    tquery,       \* a query given to createEnhancedFallbackResponse on its own
    tdocs,        \* its calls for tquery: the theme it selected, the text it returned
    raw,          \* a text given to the formatters on their own
    formatted     \* what a formatter returned for raw: none, or one text

hvars == <<variant, req, apiKey, pc, fetches, response, errorData, data, thrown,
           composed, resHeaders, statusCode, sent, body>>

pvars == <<tquery, tdocs, raw, formatted>>

Variants == {"api", "part_000"}

Methods == {"OPTIONS", "POST", "GET"}

EmptyObject == Obj([k \in {} |-> Undefined])

\* queries a request may carry
SampleQueries == {
    "tell me about the ocean",
    "a walk in the forest",
    "quantum nothing",
    "Deep THOUGHTS  in the city" }

\* req.body as the framework's body parser leaves it
Bodies ==
    {Undefined, EmptyObject}
    \cup {Obj([query |-> Str(q)]) : q \in SampleQueries \cup {"", "   "}}

ApiKeys == {Undefined, Str(""), Str("sk-test")}

\* the statuses the remote endpoint may answer with
RemoteStatuses == {200, 201, 400, 402, 500}

\* the error bodies it may send with a non-2xx status
ErrorBodies == {
    "",
    "Unauthorized",
    "{\"error\":{\"message\":\"Insufficient Balance\"}}" }

\* the texts a completion may carry
RemoteTexts == {"Aurora Gate\n\nThe **sky** hums.", "Welcome"}

Completion(content) ==
    Obj([choices |-> Arr(<<Obj([message |-> Obj([content |-> content])])>>)])

\* what response.json() may resolve with
RemotePayloads ==
    {Null, EmptyObject, Obj([choices |-> Arr(<<>>)]),
     Obj([choices |-> Arr(<<EmptyObject>>)]), Completion(Str(""))}
    \cup {Completion(Str(t)) : t \in RemoteTexts}

\* new Date().toISOString(): the instants a response may be stamped with
Instants == {"2024-05-01T12:00:00.000Z"}

CorsHeaders == [
    Access_Control_Allow_Credentials |-> "true",
    Access_Control_Allow_Origin |-> "*",
    Access_Control_Allow_Methods |-> "GET,OPTIONS,PATCH,DELETE,POST,PUT",
    Access_Control_Allow_Headers |-> "X-CSRF-Token, X-Requested-With, Accept, Accept-Version, Content-Length, Content-MD5, Content-Type, Date, X-Api-Version" ]

NoHeaders == [k \in {} |-> ""]
NoBody == [k \in {} |-> Undefined]
NoResponse == [status |-> 0]

\* JSON.stringify drops the members whose value is undefined
json(obj) == [k \in {f \in DOMAIN obj : obj[f].type # "undefined"} |-> obj[k]]

HandlerInit ==
    /\ variant \in Variants
    /\ req \in [method : Methods, body : Bodies]
    /\ apiKey \in ApiKeys
    /\ pc = "start"
    /\ fetches = <<>>
    /\ response = NoResponse
    /\ errorData = Undefined
    /\ data = Undefined
    /\ thrown = Undefined
    /\ composed = <<>>
    /\ resHeaders = NoHeaders
    /\ statusCode = 0
    /\ sent = "none"
    /\ body = NoBody

\* const { query } = req.body, for a body that is an object
query == Prop(req.body, "query")

\* res.status(code).json(obj), ending the handler
Respond(code, obj) ==
    /\ statusCode' = code
    /\ sent' = "json"
    /\ body' = json(obj)
    /\ pc' = "done"

\* a catch block that composes for the substitute query whatever the request
CatchEnhanced_Substitute(message) ==
    \E r36 \in RandomBase36, now \in Instants :
        LET q == Str("exploration")
        IN  /\ thrown' = Str(message)
            /\ composed' = Append(composed, [fn |-> "createEnhancedFallbackResponse", query |-> q])
            /\ Respond(200, [response |-> Str(createEnhancedFallbackResponse(q.value, r36)),
                             error |-> Str(message),
                             timestamp |-> Str(now),
                             note |-> Str("Using enhanced creative response engine")])

\* the catch block of part_000, entered with the caught error's message
CatchEnhanced(message) ==
    \E r36 \in RandomBase36, now \in Instants :
        LET q == OrElse(OptProp(req.body, "query"), Str("exploration"))
        IN  /\ thrown' = Str(message)
            /\ composed' = Append(composed, [fn |-> "createEnhancedFallbackResponse", query |-> q])
            /\ Respond(200, [response |-> Str(createEnhancedFallbackResponse(q.value, r36)),
                             error |-> Str(message),
                             timestamp |-> Str(now),
                             note |-> Str("Using enhanced creative response engine")])

\* the catch block of src/api/experience.js
CatchApi(message) ==
    \E t \in RandomIndex(Len(themes)), now \in Instants :
        LET q == OptProp(req.body, "query")
        IN  /\ thrown' = Str(message)
            /\ composed' = Append(composed, [fn |-> "createFallbackResponse", query |-> q])
            /\ Respond(200, [response |-> Str(api_createFallbackResponse(q, t)),
                             error |-> Str(message),
                             timestamp |-> Str(now),
                             note |-> Str("Using fallback creative response")])

\* a catch block that reports the failure with a server-error status
Catch_ServerError(message) ==
    /\ thrown' = Str(message)
    /\ composed' = composed
    /\ Respond(500, [error |-> Str(message)])

\* catch (error): the catch block of the variant
Catch(message) ==
    IF variant = "part_000" THEN CatchEnhanced(message) ELSE CatchApi(message)

\* OPTIONS: the preflight answer
Preflight ==
    /\ pc = "start"
    /\ req.method = "OPTIONS"
    /\ resHeaders' = CorsHeaders
    /\ statusCode' = 200
    /\ sent' = "end"
    /\ pc' = "done"
    /\ UNCHANGED <<variant, req, apiKey, fetches, response, composed, body>>
    /\ UNCHANGED <<errorData, data, thrown>>
    /\ UNCHANGED pvars

\* any method but OPTIONS and POST
MethodNotAllowed ==
    /\ pc = "start"
    /\ req.method \notin {"OPTIONS", "POST"}
    /\ resHeaders' = CorsHeaders
    /\ Respond(405, [error |-> Str("Method not allowed")])
    /\ UNCHANGED <<variant, req, apiKey, fetches, response, composed>>
    /\ UNCHANGED <<errorData, data, thrown>>
    /\ UNCHANGED pvars

\* POST without a body: destructuring req.body throws inside the try
BodyUndefined ==
    /\ pc = "start"
    /\ req.method = "POST"
    /\ IsNullish(req.body)
    /\ resHeaders' = CorsHeaders
    /\ Catch("Cannot destructure property 'query' of 'req.body' as it is undefined.")
    /\ UNCHANGED <<variant, req, apiKey, fetches, response>>
    /\ UNCHANGED <<errorData, data>>
    /\ UNCHANGED pvars

\* if (!query)
QueryRequired ==
    /\ pc = "start"
    /\ req.method = "POST"
    /\ ~IsNullish(req.body)
    /\ ~Truthy(query)
    /\ resHeaders' = CorsHeaders
    /\ Respond(400, [error |-> Str("Query is required")])
    /\ UNCHANGED <<variant, req, apiKey, fetches, response, composed>>
    /\ UNCHANGED <<errorData, data, thrown>>
    /\ UNCHANGED pvars

\* if (!apiKey)
NoApiKey ==
    /\ pc = "start"
    /\ req.method = "POST"
    /\ ~IsNullish(req.body)
    /\ Truthy(query)
    /\ ~Truthy(apiKey)
    /\ resHeaders' = CorsHeaders
    /\ IF variant = "part_000"
       THEN \E t \in RandomIndex(Len(simpleThemes)), now \in Instants :
                /\ composed' = Append(composed, [fn |-> "createFallbackResponse", query |-> query])
                /\ Respond(200, [response |-> Str(createFallbackResponse(query, t)),
                                 query |-> query,
                                 timestamp |-> Str(now),
                                 model |-> Str("experience-x-fallback")])
       ELSE /\ Respond(500, [error |-> Str("Server configuration error")])
            /\ UNCHANGED composed
    /\ UNCHANGED <<variant, req, apiKey, fetches, response>>
    /\ UNCHANGED <<errorData, data, thrown>>
    /\ UNCHANGED pvars

\* the body of the outbound request, as far as it depends on the request
RemoteRequest ==
    [url |-> "https://api.deepseek.com/v1/chat/completions",
     authorization |-> "Bearer " \o TemplateString(apiKey),
     model |-> "deepseek-chat",
     user |-> IF variant = "part_000"
              THEN "Create an immersive experience about: " \o TemplateString(query)
              ELSE TemplateString(query)]

\* await fetch(...): the call is issued and the handler parks on it
CallRemote ==
    /\ pc = "start"
    /\ req.method = "POST"
    /\ ~IsNullish(req.body)
    /\ Truthy(query)
    /\ Truthy(apiKey)
    /\ resHeaders' = CorsHeaders
    /\ fetches' = Append(fetches, RemoteRequest)
    /\ pc' = "fetch"
    /\ UNCHANGED <<variant, req, apiKey, response, composed, statusCode, sent, body>>
    /\ UNCHANGED <<errorData, data, thrown>>
    /\ UNCHANGED pvars

\* a handler that issues the call again when fetch rejects
FetchRejected_Retry ==
    /\ pc = "fetch"
    /\ Len(fetches) < 3
    /\ fetches' = Append(fetches, [url |-> "https://api.deepseek.com/v1/chat/completions"])
    /\ UNCHANGED <<variant, req, apiKey, pc, response, errorData, data, thrown,
                   composed, resHeaders, statusCode, sent, body>>
    /\ UNCHANGED <<tquery, tdocs, raw, formatted>>

\* fetch rejects: a transport error
FetchRejected ==
    /\ pc = "fetch"
    /\ Catch("fetch failed")
    /\ UNCHANGED <<variant, req, apiKey, fetches, response, resHeaders>>
    /\ UNCHANGED <<errorData, data>>
    /\ UNCHANGED pvars

\* response.ok
ok(r) == r.status >= 200 /\ r.status <= 299

\* fetch resolves; the handler goes on to read the body, as text or as JSON
FetchResolved ==
    /\ pc = "fetch"
    /\ \E st \in RemoteStatuses :
        /\ response' = [status |-> st]
        /\ pc' = IF ok([status |-> st]) THEN "json" ELSE "text"
    /\ UNCHANGED <<variant, req, apiKey, fetches, composed, resHeaders, statusCode, sent, body>>
    /\ UNCHANGED <<errorData, data, thrown>>
    /\ UNCHANGED pvars

\* await response.text() rejects
TextRejected ==
    /\ pc = "text"
    /\ Catch("terminated")
    /\ UNCHANGED <<variant, req, apiKey, fetches, response, resHeaders>>
    /\ UNCHANGED <<errorData, data>>
    /\ UNCHANGED pvars

\* a quota test that looks at the status alone
InsufficientBalance_StatusOnly(r, text) == r.status = 402

\* response.status === 402 || errorData.includes('Insufficient Balance')
InsufficientBalance(r, text) ==
    r.status = 402 \/ includes(text, "Insufficient Balance")

\* the error body was read: the !response.ok branch
TextRead ==
    /\ pc = "text"
    /\ \E text \in ErrorBodies :
        /\ errorData' = Str(text)
        /\ IF variant = "part_000" /\ InsufficientBalance(response, text)
           THEN \E r36 \in RandomBase36, now \in Instants :
                /\ thrown' = thrown
                /\ composed' = Append(composed, [fn |-> "createEnhancedFallbackResponse", query |-> query])
                /\ Respond(200, [response |-> Str(createEnhancedFallbackResponse(query.value, r36)),
                                 query |-> query,
                                 timestamp |-> Str(now),
                                 model |-> Str("experience-x-enhanced"),
                                 note |-> Str("DeepSeek API balance issue - using enhanced creative mode")])
           ELSE Catch("API request failed with status " \o ToString(response.status))
    /\ UNCHANGED <<variant, req, apiKey, fetches, response, resHeaders>>
    /\ UNCHANGED data
    /\ UNCHANGED pvars

\* await response.json() rejects: the body is not JSON
JsonRejected ==
    /\ pc = "json"
    /\ Catch("Unexpected token < in JSON at position 0")
    /\ UNCHANGED <<variant, req, apiKey, fetches, response, resHeaders>>
    /\ UNCHANGED <<errorData, data>>
    /\ UNCHANGED pvars

\* data.choices?.[0]?.message?.content, for a data that is not nullish
content(payload) ==
    OptProp(OptProp(OptFirst(Prop(payload, "choices")), "message"), "content")

\* the payload was parsed: extract, format, respond
JsonRead ==
    /\ pc = "json"
    /\ \E parsed \in RemotePayloads :
      /\ data' = parsed
      /\ IF IsNullish(parsed)
        THEN  Catch("Cannot read properties of null (reading 'choices')")
        ELSE IF variant = "part_000"
        THEN \E h \in RandomIndex(Len(headers)), f \in RandomIndex(Len(footers)), now \in Instants :
                IF Truthy(content(parsed))
                THEN /\ thrown' = thrown
                     /\ composed' = composed
                     /\ Respond(200, [response |-> Str(enhanceResponse(content(parsed).value, h, f)),
                                      query |-> query,
                                      timestamp |-> Str(now),
                                      model |-> Str("deepseek-chat")])
                ELSE \E t \in RandomIndex(Len(simpleThemes)) :
                     /\ thrown' = thrown
                     /\ composed' = Append(composed, [fn |-> "createFallbackResponse", query |-> query])
                     /\ Respond(200, [response |-> Str(enhanceResponse(createFallbackResponse(query, t), h, f)),
                                      query |-> query,
                                      timestamp |-> Str(now),
                                      model |-> Str("deepseek-chat")])
        ELSE \E e \in RandomIndex(Len(enhancements)), now \in Instants :
                LET aiResponse == OrElse(content(parsed), Str(api_Apology)).value
                IN  /\ thrown' = thrown
                    /\ composed' = composed
                    /\ Respond(200, [response |-> Str(api_enhanceResponse(aiResponse, e)),
                                     query |-> query,
                                     timestamp |-> Str(now),
                                     model |-> Str("deepseek-chat")])
    /\ UNCHANGED <<variant, req, apiKey, fetches, response, resHeaders>>
    /\ UNCHANGED errorData
    /\ UNCHANGED pvars

HandlerNext ==
    \/ Preflight
    \/ MethodNotAllowed
    \/ BodyUndefined
    \/ QueryRequired
    \/ NoApiKey
    \/ CallRemote
    \/ FetchRejected
    \/ FetchResolved
    \/ TextRejected
    \/ TextRead
    \/ JsonRejected
    \/ JsonRead

HandlerIdle ==
    /\ variant = "part_000"
    /\ req = [method |-> "OPTIONS", body |-> Undefined]
    /\ apiKey = Undefined
    /\ pc = "idle"
    /\ fetches = <<>>
    /\ response = NoResponse
    /\ errorData = Undefined
    /\ data = Undefined
    /\ thrown = Undefined
    /\ composed = <<>>
    /\ resHeaders = NoHeaders
    /\ statusCode = 0
    /\ sent = "none"
    /\ body = NoBody

ThemeIdle == tquery = "" /\ tdocs = <<>>
FormatIdle == raw = "" /\ formatted = <<>>

vars == <<hvars, pvars>>

Init == HandlerInit /\ ThemeIdle /\ FormatIdle
Next == HandlerNext
Spec == Init /\ [][Next]_vars

----------------------------------------------------------------------------
(* Properties of the handler *)

IsPost == req.method = "POST"
IsPreflight == req.method = "OPTIONS"

\* the request carries no query, or one that is empty once trimmed
QueryMissingOrEmpty ==
    IsNullish(req.body) \/ query.type # "string" \/ trim(query.value) = ""

Has(field) == field \in DOMAIN body

\* the remote call returned a non-2xx Response whose body was read
ErrorResponseRead == response # NoResponse /\ ~ok(response) /\ errorData # Undefined

C2_Claim ==
    variant = "part_000" /\ IsPost /\ QueryMissingOrEmpty =>
        /\ fetches = <<>>
        /\ composed = <<>>
        /\ pc = "done" =>
            /\ statusCode \in 400..499
            /\ sent = "json"
            /\ Has("error")

ModelIdentifiers == {"deepseek-chat", "experience-x-fallback", "experience-x-enhanced"}

\* the response does not come from a remote call that returned text
Degraded == ~(response # NoResponse /\ ok(response) /\ Truthy(content(data)))

\* C3, as stated, of the handler of part_000 and a request that carries a
\* query: every status-200 response to a POST carries response, query (the
\* request's query), timestamp and model (one of the fixed identifiers); note
\* and error appear only on degraded paths.
C3_Claim ==
    variant = "part_000" /\ pc = "done" /\ IsPost /\ ~QueryMissingOrEmpty /\ statusCode = 200 =>
        /\ {"response", "query", "timestamp", "model"} \subseteq DOMAIN body
        /\ body.query = query
        /\ body.model.value \in ModelIdentifiers
        /\ Has("note") \/ Has("error") => Degraded

\* the response text is the enhanced document composed for query q
IsEnhancedFor(q) ==
    /\ Has("response")
    /\ \E r36 \in RandomBase36 : body.response.value = createEnhancedFallbackResponse(q, r36)

\* the response text is the document createFallbackResponse of
\* src/api/experience.js composes for the JavaScript value q
IsApiFallbackFor(q) ==
    /\ Has("response")
    /\ \E t \in RandomIndex(Len(themes)) : body.response.value = api_createFallbackResponse(q, t)

\* the response text is the simple document composed for the JavaScript value q
IsSimpleFor(q) ==
    /\ Has("response")
    /\ \E t \in RandomIndex(Len(simpleThemes)) : body.response.value = createFallbackResponse(q, t)

FallbackTiers == {"experience-x-fallback", "experience-x-enhanced"}

NoCredentialPost == IsPost /\ ~IsNullish(req.body) /\ Truthy(query) /\ ~Truthy(apiKey)

ThemeNames == {themeMap[k].name : k \in DOMAIN themeMap}

QuotaCondition ==
    /\ ErrorResponseRead
    /\ response.status = 402 \/ includes(errorData.value, "Insufficient Balance")

QuotaNote == "DeepSeek API balance issue - using enhanced creative mode"

\* what C6 states of a response
QuotaAnswer ==
    /\ statusCode = 200
    /\ IsEnhancedFor(query.value)
    /\ Has("note")
    /\ Has("query") /\ body.query = query
    /\ Has("model") /\ body.model.value \in FallbackTiers
    /\ ~Has("error")

StatusMessage == "API request failed with status " \o ToString(response.status)

FetchFailed == fetches # <<>> /\ response = NoResponse /\ thrown # Undefined
TextFailed == response # NoResponse /\ ~ok(response) /\ errorData = Undefined /\ thrown # Undefined
OtherFailure == FetchFailed \/ TextFailed \/ (ErrorResponseRead /\ ~QuotaCondition)

PayloadRead == response # NoResponse /\ ok(response) /\ data # Undefined

IsRenderingOf(text) ==
    /\ Has("response")
    /\ IF variant = "part_000"
       THEN \E h \in RandomIndex(Len(headers)), f \in RandomIndex(Len(footers)) :
                body.response.value = enhanceResponse(text, h, f)
       ELSE \E e \in RandomIndex(Len(enhancements)) :
                body.response.value = api_enhanceResponse(text, e)

\* C8, as stated, of the handler of part_000: the model is deepseek-chat only when a 2xx payload carried
\* text in its first choice and the response is the formatter's rendering of
\* it; a 2xx payload without such text is answered as an other failure, with
\* the enhanced fallback and an error message, never with that model.
C8_Claim ==
    variant = "part_000" /\ pc = "done" =>
        /\ Has("model") /\ body.model.value = "deepseek-chat" =>
            /\ PayloadRead
            /\ Truthy(content(data))
            /\ IsRenderingOf(content(data).value)
        /\ PayloadRead /\ ~Truthy(content(data)) =>
            /\ Has("error")
            /\ ~(Has("model") /\ body.model.value = "deepseek-chat")

\* C9: at most one outbound call per request; it is issued from the start of
\* the handler, for a POST with a query and a credential; once it is issued,
\* no step up to the response issues another; a request without credential,
\* with a bad method or without query never has one.
C9_SingleCall ==
    /\ [](/\ Len(fetches) <= 1
          /\ fetches # <<>> => IsPost /\ ~IsNullish(req.body) /\ Truthy(query) /\ Truthy(apiKey))
    /\ [][(fetches' # fetches => pc = "start" /\ pc' = "fetch" /\ Len(fetches') = Len(fetches) + 1)]_vars
    /\ [][(pc \in {"fetch", "text", "json"} => UNCHANGED fetches)]_vars

\* a call that failed, and the handler responded without another
C9_Witness ==
    /\ pc = "done"
    /\ Len(fetches) = 1
    /\ ErrorResponseRead
    /\ thrown # Undefined

----------------------------------------------------------------------------
(* createEnhancedFallbackResponse on its own, over queries put together    *)
(* from a few pieces                                                       *)

MaxPieces == 3
MaxCalls == 2

RECURSIVE Concatenations(_, _)
\* the texts made of at most n of the pieces, in any order, with repetition
Concatenations(pieces, n) ==
    IF n = 0 THEN {""}
    ELSE LET shorter == Concatenations(pieces, n - 1)
         IN  shorter \cup {t \o p : t \in shorter, p \in pieces}

ThemePieces == {"Tree", "sea", "mind", "x", " "}

\* one query for each trigger keyword, and some with none
TriggerSamples == {
    "into the forest", "old trees", "Nature walk", "the ocean", "seaside", "waterfall\trapids",
    "city lights", "buildings", "suburban", "mindful", "a thought", "rethinking",
    "mindCITY", "CITY of the mind", "urban sea", "thinking of water",
    "quantum nothing", "\n", "cit y", "oce an" }

ThemeQueries == Concatenations(ThemePieces, MaxPieces) \cup TriggerSamples

ThemeInit ==
    /\ HandlerIdle
    /\ FormatIdle
    /\ tquery \in ThemeQueries
    /\ tdocs = <<>>

\* one call of createEnhancedFallbackResponse(tquery)
ComposeEnhanced ==
    /\ Len(tdocs) < MaxCalls
    /\ \E r36 \in RandomBase36 :
        tdocs' = Append(tdocs, [selectedTheme |-> selectedTheme(tquery),
                                text |-> createEnhancedFallbackResponse(tquery, r36)])
    /\ UNCHANGED <<tquery, raw, formatted>>
    /\ UNCHANGED hvars

ThemeNext == ComposeEnhanced

SpecTheme == ThemeInit /\ [][ThemeNext]_vars

\* the trigger substrings of each theme that has any, and the order in which
\* a token is tested against the themes
Triggers == [
    forest |-> {"forest", "tree", "nature"},
    ocean |-> {"ocean", "sea", "water"},
    city |-> {"city", "building", "urban"},
    mind |-> {"mind", "thought", "think"} ]

Priority == <<"forest", "ocean", "city", "mind">>

TokenMatches(token, key) == \E t \in Triggers[key] : includes(token, t)

\* the tokens of s: its maximal runs of characters that are not whitespace,
\* each as <<first, last>>
TokenSpans(s) ==
    {sp \in (1..Len(s)) \X (1..Len(s)) :
        /\ sp[1] <= sp[2]
        /\ \A k \in sp[1]..sp[2] : ~IsWhitespace(CharAt(s, k))
        /\ sp[1] = 1 \/ IsWhitespace(CharAt(s, sp[1] - 1))
        /\ sp[2] = Len(s) \/ IsWhitespace(CharAt(s, sp[2] + 1))}

\* the theme C4 describes for query q
ExpectedTheme(q) ==
    LET s == toLowerCase(q)
        matching == {sp \in TokenSpans(s) :
                        \E k \in 1..Len(Priority) : TokenMatches(SubSeq(s, sp[1], sp[2]), Priority[k])}
    IN  IF matching = {} THEN "space"
        ELSE LET first == CHOOSE sp \in matching : \A o \in matching : sp[1] <= o[1]
                 token == SubSeq(s, first[1], first[2])
                 k == CHOOSE n \in 1..Len(Priority) :
                        /\ TokenMatches(token, Priority[n])
                        /\ \A m \in 1..(n - 1) : ~TokenMatches(token, Priority[m])
             IN  Priority[k]

\* the heading a document carries for the theme of key k
Heading(k) == "\n## " \o themeMap[k].name \o "\n\n"

\* C4: every document composed for a query carries the theme of the first
\* token, in query order, of the lower-cased query split on whitespace that
\* contains a trigger, a token with triggers of several themes being decided
\* by the order forest, ocean, city, mind; the Star Network (space) theme when
\* no token contains a trigger; and so the same theme at every call.
C4_ThemeSelection ==
    \A i \in 1..Len(tdocs) :
        /\ tdocs[i].selectedTheme = ExpectedTheme(tquery)
        /\ includes(tdocs[i].text, Heading(ExpectedTheme(tquery)))

\* one token with an ocean and a forest trigger, composed twice with two
\* identifiers
C4_Witness ==
    /\ tquery = "seaTree"
    /\ Len(tdocs) = 2
    /\ tdocs[1].text # tdocs[2].text
    /\ tdocs[1].selectedTheme = "forest"
    /\ tdocs[2].selectedTheme = "forest"

----------------------------------------------------------------------------
(* The two formatters on their own, over texts put together from a few     *)
(* pieces                                                                  *)

MaxRawPieces == 3

X10 == "xxxxxxxxxx"
\* a run of exactly 100 characters: the length the formatter compares with
Run100 == X10 \o X10 \o X10 \o X10 \o X10 \o X10 \o X10 \o X10 \o X10 \o X10

RawPieces == {"Title\n\n", "**b**", Run100, "y", " ", "_", "\n\n"}

RawTexts == Concatenations(RawPieces, MaxRawPieces)

FormatInit ==
    /\ HandlerIdle
    /\ ThemeIdle
    /\ raw \in RawTexts
    /\ formatted = <<>>

\* one call of enhanceResponse(raw) of part_000
Format ==
    /\ formatted = <<>>
    /\ \E h \in RandomIndex(Len(headers)), f \in RandomIndex(Len(footers)) :
        formatted' = <<[by |-> "part_000", h |-> h, f |-> f, text |-> enhanceResponse(raw, h, f)]>>
    /\ UNCHANGED <<tquery, tdocs, raw>>
    /\ UNCHANGED hvars

\* one call of enhanceResponse(raw) of src/api/experience.js
ApiFormat ==
    /\ formatted = <<>>
    /\ \E e \in RandomIndex(Len(enhancements)) :
        formatted' = <<[by |-> "api", h |-> e, f |-> 0, text |-> api_enhanceResponse(raw, e)]>>
    /\ UNCHANGED <<tquery, tdocs, raw>>
    /\ UNCHANGED hvars

FormatNext == Format \/ ApiFormat

SpecFormat == FormatInit /\ [][FormatNext]_vars

RawParagraphs == SplitParagraphs(raw)

\* the paragraphs of raw that are not empty once the noise is stripped and
\* they are trimmed: their indexes, in order
KeptParagraphs ==
    SelectSeq([i \in 1..Len(RawParagraphs) |-> i],
              LAMBDA i : Len(trim(cleanResponse(RawParagraphs[i]))) > 0)

\* the line C10 describes for the k-th kept paragraph
ClaimedLine(k) ==
    LET rawPara == RawParagraphs[KeptParagraphs[k]]
        para == cleanResponse(rawPara)
    IN  IF k = 1 THEN TitlePrefix \o para \o "\n\n"
        ELSE IF includes(rawPara, "**") \/ Len(para) > 100
             THEN EmphasisPrefix \o para \o "\n\n"
             ELSE BulletPrefix \o para \o "\n\n"

\* C10, as stated, of enhanceResponse of part_000: every paragraph after the
\* first whose raw text contains ** or whose length exceeds 100 is rendered
\* with the emphasis prefix, every other one with the bullet prefix.
C10_Claim ==
    \A j \in 1..Len(formatted) :
        formatted[j].by = "part_000" =>
            formatted[j].text =
                headers[formatted[j].h + 1] \o "\n\n"
                \o ConcatAll([k \in 1..Len(KeptParagraphs) |-> ClaimedLine(k)])
                \o footers[formatted[j].f + 1]

\* the paragraphs of the cleaned text that are not empty once trimmed, in
\* input order
CleanedParagraphs ==
    LET all == SplitParagraphs(cleanResponse(raw))
        kept == {i \in 1..Len(all) : trim(all[i]) # ""}
        Nth[k \in 1..Cardinality(kept)] ==
            CHOOSE i \in kept : Cardinality({m \in kept : m < i}) = k - 1
    IN  [k \in 1..Cardinality(kept) |-> all[Nth[k]]]

ParagraphPrefixes == {EmphasisPrefix, BulletPrefix}

StartsWith(text, start) == SubSeq(text, 1, Len(start)) = start

EndsWith(text, end) ==
    /\ Len(end) <= Len(text)
    /\ SubSeq(text, Len(text) - Len(end) + 1, Len(text)) = end

\* text is the header drawn from the pool, then paras rendered in order, the
\* first as a title line and each later one with one paragraph prefix, then
\* the footer drawn from the pool
IsDocumentOf(text, paras, h, f) ==
    \E prefix \in [2..Len(paras) -> ParagraphPrefixes] :
        text = headers[h] \o "\n\n"
               \o ConcatAll([k \in 1..Len(paras) |->
                                (IF k = 1 THEN TitlePrefix ELSE prefix[k])
                                \o paras[k] \o "\n\n"])
               \o footers[f]

\* text is a header and a footer with nothing between them, and no title
IsHeaderAndFooter(text, h, f) ==
    /\ text = headers[h] \o "\n\n" \o footers[f]
    /\ ~includes(text, TitlePrefix)

\* text is one title line followed by one classified line
IsTitleAndOneLine(text, paras, h, f) ==
    \E p \in ParagraphPrefixes :
        text = headers[h] \o "\n\n"
               \o TitlePrefix \o paras[1] \o "\n\n"
               \o p \o paras[2] \o "\n\n"
               \o footers[f]

\* what C11 says of one formatted text, h and f being the positions in the
\* header pool and in the footer pool that the call drew
IsFormatted(text, h, f) ==
    /\ h \in 1..Len(headers)
    /\ f \in 1..Len(footers)
    /\ LET paras == CleanedParagraphs
       IN  /\ IsDocumentOf(text, paras, h, f)
           /\ Len(paras) = 0 => IsHeaderAndFooter(text, h, f)
           /\ Len(paras) = 2 => IsTitleAndOneLine(text, paras, h, f)

\* what enhanceResponse of src/api/experience.js returns instead: one header
\* of its own pool, then every paragraph of the raw text, nothing stripped
\* and nothing dropped, the first after the title marker, every third one
\* after an arrow, the others as they are, joined by blank lines; no footer at the end
IsApiFormatted(text, e) ==
    LET all == SplitParagraphs(raw)
        Line(k) == IF k = 1 THEN TitlePrefix \o all[k]
                   ELSE IF (k - 1) % 3 = 0 THEN EmphasisPrefix \o all[k]
                   ELSE all[k]
    IN  /\ e \in 1..Len(enhancements)
        /\ text = enhancements[e] \o JoinWith([k \in 1..Len(all) |-> Line(k)], "\n\n")
        /\ \A f \in 1..Len(footers) : ~EndsWith(text, footers[f])
        /\ StartsWith(text, enhancements[e] \o TitlePrefix)

====
